---- MODULE Spec2Model ----
(***************************************************************************)
(* Model of ggez's timer module (src/src/timer.rs): the LogBuffer of       *)
(* recent frame durations and the TimeContext with its fixed-timestep      *)
(* accumulator.                                                            *)
(*                                                                         *)
(* A std::time::Duration is modelled by its total number of nanoseconds    *)
(* (a natural number), a std::time::Instant by the nanoseconds since the   *)
(* TimeContext was constructed.  An f64 is modelled by the exact rational  *)
(* [num, den] it approximates; den = 0 with num > 0 is +infinity.          *)
(***************************************************************************)
EXTENDS Integers, Sequences, FiniteSets, TLC

VARIABLES
    init_instant,        \* TimeContext.init_instant
    last_instant,        \* TimeContext.last_instant
    frame_durations,     \* TimeContext.frame_durations : LogBuffer [head, size, contents]
    residual_update_dt,  \* TimeContext.residual_update_dt
    frame_count,         \* TimeContext.frame_count
    ret,                 \* the last call and what it returned
    history,             \* ghost: the deltas measured by all ticks so far, oldest first
    trues,               \* ghost: per target_fps, the number of check_update_time calls that returned true
    falses,              \* ghost: the target_fps values that got false since the last tick
    debug_assertions,    \* build configuration: whether debug_assert! is compiled in
    pc,                  \* position of the caller's update loop: "idle" or "update"
    loop_fps             \* the target_fps the caller's update loop passes

vars == <<init_instant, last_instant, frame_durations, residual_update_dt,
          frame_count, ret, history, trues, falses, debug_assertions, pc, loop_fps>>

timeVars == <<init_instant, last_instant, frame_durations, residual_update_dt, frame_count>>

----------------------------------------------------------------------------
(* Program constants *)

TIME_LOG_FRAMES == 200

NANOS_PER_SEC == 1000000000

(* Bounds of the model *)

MaxTicks == 3

HistTicks == 202

PatLen == 3

LoopTicks == 1

MaxSteps == 100

ConvTicks == 1

ConvSteps == 5

(* Input sets.  Durations are in nanoseconds. *)

Ms(n) == n * 1000000

Deltas == {0, Ms(5), Ms(40), Ms(45)}

Rates == {1, 25, 60}

HistDeltas == {0, 7, 1000003}

LoopDeltas == {0, Ms(45)}

LoopRates == 1..1000

\* f64 inputs of f64_to_duration, as <<num, den>>
ConvInputs == {<<-3, 2>>, <<-1, 1>>, <<-1, 60>>, <<0, 1>>, <<1, 60>>, <<1, 1>>, <<3, 2>>, <<2, 1>>}

ConvDurations == {0, 1, Ms(5), NANOS_PER_SEC, NANOS_PER_SEC + Ms(500)}

ConvDeltas == {Ms(5)}

\* Rates up to the extremes of u32 that fit the model's integers
ConvRates == (1..64) \cup {1000, 999999999, 1000000000, 1000000001, 2000000000, 2147483647}

\* What the float-to-integer casts of a negative t may give (undefined before
\* Rust 1.45, saturating to 0 since)
UndefinedCast == {0, 1, NANOS_PER_SEC}

----------------------------------------------------------------------------
(* Helpers *)

Min(a, b) == IF a < b THEN a ELSE b

VecLen(v) == Cardinality(DOMAIN v)

\* The sum of f[lo..hi], by halves to keep the evaluation shallow
RECURSIVE SumRange(_, _, _)
SumRange(f, lo, hi) ==
    IF lo > hi THEN 0
    ELSE IF lo = hi THEN f[lo]
    ELSE LET mid == (lo + hi) \div 2
         IN  SumRange(f, lo, mid) + SumRange(f, mid + 1, hi)

SumSeq(s) == SumRange(s, 1, Len(s))

----------------------------------------------------------------------------
(* LogBuffer<T>: contents is a Vec indexed from 0 *)

\* Mutant: the count of filled slots starts at 0
LogBuffer_new_empty(size, init_val) ==
    [head |-> 0,
     size |-> 0,
     contents |-> [i \in 0..(size - 1) |-> init_val]]

LogBuffer_new(size, init_val) ==
    [head |-> 0,
     size |-> size,
     contents |-> [i \in 0..(size - 1) |-> init_val]]

\* Mutant: the cursor wraps one slot early, so the last slot is never written
LogBuffer_push_short_wrap(self, item) ==
    LET head == (self.head + 1) % (VecLen(self.contents) - 1)
        contents == [self.contents EXCEPT ![head] = item]
    IN  [head |-> head,
         contents |-> contents,
         size |-> Min(self.size + 1, VecLen(contents))]

\* Mutant: the slot is written before the cursor advances
LogBuffer_push_write_first(self, item) ==
    LET contents == [self.contents EXCEPT ![self.head] = item]
    IN  [head |-> (self.head + 1) % VecLen(self.contents),
         contents |-> contents,
         size |-> Min(self.size + 1, VecLen(contents))]

\* Mutant: the advanced cursor is not stored
LogBuffer_push_cursor_lost(self, item) ==
    LET head == (self.head + 1) % VecLen(self.contents)
        contents == [self.contents EXCEPT ![head] = item]
    IN  [head |-> self.head,
         contents |-> contents,
         size |-> Min(self.size + 1, VecLen(contents))]

\* Mutant: the count of filled slots is not capped
LogBuffer_push_uncapped(self, item) ==
    LET head == (self.head + 1) % VecLen(self.contents)
        contents == [self.contents EXCEPT ![head] = item]
    IN  [head |-> head,
         contents |-> contents,
         size |-> self.size + 1]

LogBuffer_push(self, item) ==
    LET head == (self.head + 1) % VecLen(self.contents)
        contents == [self.contents EXCEPT ![head] = item]
    IN  [head |-> head,
         contents |-> contents,
         size |-> Min(self.size + 1, VecLen(contents))]

LogBuffer_contents(self) == self.contents

\* Mutant: the slot before the cursor is read
LogBuffer_latest_previous(self) ==
    self.contents[(self.head + VecLen(self.contents) - 1) % VecLen(self.contents)]

LogBuffer_latest(self) == self.contents[self.head]

----------------------------------------------------------------------------
(* Duration / f64 conversions *)

\* What a call gives back: a number val / den (den = 1 for durations and
\* counts, den = 0 for an infinite f64), a boolean, or a panic.
Value(v) == [val |-> v, den |-> 1, yes |-> FALSE, panicked |-> FALSE]

Float(f) == [val |-> f.num, den |-> f.den, yes |-> FALSE, panicked |-> FALSE]

Bool(b) == [val |-> 0, den |-> 1, yes |-> b, panicked |-> FALSE]

Panic == [val |-> 0, den |-> 1, yes |-> FALSE, panicked |-> TRUE]

\* Duration / u32: panics on a zero divisor, else truncates to whole nanoseconds
\* (secs / rhs, and the carry and the nanos each divided by rhs).
Duration_div(d, rhs) ==
    IF rhs = 0
    THEN Panic
    ELSE LET secs == (d \div NANOS_PER_SEC) \div rhs
             carry == (d \div NANOS_PER_SEC) - secs * rhs
             extra_nanos == (carry * NANOS_PER_SEC) \div rhs
             nanos == ((d % NANOS_PER_SEC) \div rhs) + extra_nanos
         IN  Value(secs * NANOS_PER_SEC + nanos)

\* seconds + nanos * 1e-9, as the rational d / 1e9
duration_to_f64(d) == [num |-> d, den |-> NANOS_PER_SEC]

\* Mutant: the fraction is scaled to microseconds
f64_to_duration_micros(num, den) ==
    LET seconds == num \div den
        nanos == ((num % den) * 1000000) \div den
    IN  seconds * NANOS_PER_SEC + nanos

\* t = num / den >= 0: Duration::new(trunc(t) as u64, (fract(t) * 1e9) as u32)
f64_to_duration(num, den) ==
    LET seconds == num \div den
        nanos == ((num % den) * NANOS_PER_SEC) \div den
    IN  seconds * NANOS_PER_SEC + nanos

\* The outcomes of f64_to_duration(t) for any t = num / den: the debug_assert!
\* panics on t < 0 only when debug assertions are compiled in; without them the
\* casts of the negative parts decide the result.
f64_to_duration_outcomes(num, den) ==
    IF num < 0
    THEN IF debug_assertions THEN {Panic} ELSE {Value(d) : d \in UndefinedCast}
    ELSE {Value(f64_to_duration(num, den))}

\* Mutant: only the whole seconds of 1 / fps are kept
fps_as_duration_whole_secs(fps) == (1 \div fps) * NANOS_PER_SEC

\* f64_to_duration(1.0 / f64::from(fps)), for fps >= 1.  The f64 evaluation
\* (round 1/fps, multiply the fraction by 1e9, truncate) gives the same
\* nanoseconds as the exact quotient for the rates used here.
fps_as_duration(fps) == f64_to_duration(1, fps)

----------------------------------------------------------------------------
(* TimeContext *)

\* pre is residual_update_dt as it was when the call was made
Call(op, arg, result) ==
    [op |-> op, arg |-> arg, val |-> result.val, den |-> result.den, yes |-> result.yes,
     panicked |-> result.panicked, pre |-> residual_update_dt]

Count(fps) == IF fps \in DOMAIN trues THEN trues[fps] ELSE 0

InitTimer ==
    /\ init_instant = 0
    /\ last_instant = 0
    /\ frame_durations = LogBuffer_new(TIME_LOG_FRAMES, 0)
    /\ residual_update_dt = 0
    /\ frame_count = 0
    /\ ret = [op |-> "new", arg |-> 0, val |-> 0, den |-> 1, yes |-> FALSE,
              panicked |-> FALSE, pre |-> 0]
    /\ history = <<>>
    /\ trues = <<>>
    /\ falses = {}
    /\ pc = "idle"

\* The timer itself passes only t >= 0 to f64_to_duration, so its behaviour is
\* the same in every build configuration; the debug build is taken.
Init == InitTimer /\ loop_fps = 0 /\ debug_assertions = TRUE

\* Mutant: the residual is overwritten with the delta instead of accumulated
tick_overwrite(now) ==
    LET time_since_last == now - last_instant
    IN  /\ frame_durations' = LogBuffer_push(frame_durations, time_since_last)
        /\ last_instant' = now
        /\ frame_count' = frame_count + 1
        /\ residual_update_dt' = time_since_last
        /\ history' = Append(history, time_since_last)
        /\ ret' = Call("tick", 0, Value(time_since_last))
        /\ falses' = {}
        /\ UNCHANGED <<init_instant, trues, debug_assertions>>

\* Mutant: the frame counter is not incremented
tick_uncounted(now) ==
    LET time_since_last == now - last_instant
    IN  /\ frame_durations' = LogBuffer_push(frame_durations, time_since_last)
        /\ last_instant' = now
        /\ frame_count' = frame_count
        /\ residual_update_dt' = residual_update_dt + time_since_last
        /\ history' = Append(history, time_since_last)
        /\ ret' = Call("tick", 0, Value(time_since_last))
        /\ falses' = {}
        /\ UNCHANGED <<init_instant, trues, debug_assertions>>

\* tick(): now is what Instant::now() returns
tick(now) ==
    LET time_since_last == now - last_instant
    IN  /\ frame_durations' = LogBuffer_push(frame_durations, time_since_last)
        /\ last_instant' = now
        /\ frame_count' = frame_count + 1
        /\ residual_update_dt' = residual_update_dt + time_since_last
        /\ history' = Append(history, time_since_last)
        /\ ret' = Call("tick", 0, Value(time_since_last))
        /\ falses' = {}
        /\ UNCHANGED <<init_instant, trues, debug_assertions>>

get_delta == LogBuffer_latest(frame_durations)

\* Mutant: the fold misses the first slot
get_average_delta_skip_first ==
    LET c == LogBuffer_contents(frame_durations)
        sum == SumRange(c, 1, VecLen(c) - 1)
    IN  Duration_div(sum, frame_durations.size)

get_average_delta ==
    LET c == LogBuffer_contents(frame_durations)
        sum == SumRange(c, 0, VecLen(c) - 1)
    IN  Duration_div(sum, frame_durations.size)

\* 1.0 / seconds_per_frame; the division by zero gives +infinity (den = 0)
get_fps ==
    LET duration_per_frame == get_average_delta
        seconds_per_frame == duration_to_f64(duration_per_frame.val)
    IN  IF duration_per_frame.panicked
        THEN Panic
        ELSE Float([num |-> seconds_per_frame.den, den |-> seconds_per_frame.num])

get_time_since_start(now) == now - init_instant

get_remaining_update_time == residual_update_dt

get_ticks == frame_count

CheckResult(target_fps, due, target_dt) ==
    /\ IF due
       THEN /\ residual_update_dt' = residual_update_dt - target_dt
            /\ ret' = Call("check_update_time", target_fps, Bool(TRUE))
            /\ trues' = [r \in DOMAIN trues \cup {target_fps} |->
                            IF r = target_fps THEN Count(r) + 1 ELSE trues[r]]
            /\ falses' = falses
       ELSE /\ residual_update_dt' = residual_update_dt
            /\ ret' = Call("check_update_time", target_fps, Bool(FALSE))
            /\ trues' = trues
            /\ falses' = falses \cup {target_fps}
    /\ UNCHANGED <<init_instant, last_instant, frame_durations, frame_count, history,
                   debug_assertions>>

\* Mutant: a residual equal to target_dt is also consumed
check_update_time_ge(target_fps) ==
    LET target_dt == fps_as_duration(target_fps)
    IN  CheckResult(target_fps, residual_update_dt >= target_dt, target_dt)

\* Mutant: any positive residual is consumed
check_update_time_any(target_fps) ==
    LET target_dt == fps_as_duration(target_fps)
    IN  CheckResult(target_fps, residual_update_dt > 0, target_dt)

\* Mutant: target_dt is subtracted whatever the result
check_update_time_always_sub(target_fps) ==
    LET target_dt == fps_as_duration(target_fps)
        due == residual_update_dt > target_dt
    IN  /\ residual_update_dt' = residual_update_dt - target_dt
        /\ ret' = Call("check_update_time", target_fps, Bool(due))
        /\ trues' = IF due
                    THEN [r \in DOMAIN trues \cup {target_fps} |->
                             IF r = target_fps THEN Count(r) + 1 ELSE trues[r]]
                    ELSE trues
        /\ falses' = IF due THEN falses ELSE falses \cup {target_fps}
        /\ UNCHANGED <<init_instant, last_instant, frame_durations, frame_count, history,
                       debug_assertions>>

\* Mutant: a call is also counted as a frame
check_update_time_counted(target_fps) ==
    LET target_dt == fps_as_duration(target_fps)
        due == residual_update_dt > target_dt
    IN  /\ residual_update_dt' = IF due THEN residual_update_dt - target_dt ELSE residual_update_dt
        /\ ret' = Call("check_update_time", target_fps, Bool(due))
        /\ trues' = IF due
                    THEN [r \in DOMAIN trues \cup {target_fps} |->
                             IF r = target_fps THEN Count(r) + 1 ELSE trues[r]]
                    ELSE trues
        /\ falses' = IF due THEN falses ELSE falses \cup {target_fps}
        /\ frame_count' = frame_count + 1
        /\ UNCHANGED <<init_instant, last_instant, frame_durations, history, debug_assertions>>

\* check_update_time(ctx, target_fps); a negative residual stands for the
\* panic of Duration's checked subtraction
check_update_time(target_fps) ==
    LET target_dt == fps_as_duration(target_fps)
    IN  CheckResult(target_fps, residual_update_dt > target_dt, target_dt)

Query(op, result) ==
    /\ ret' = Call(op, 0, result)
    /\ UNCHANGED <<timeVars, history, trues, falses, debug_assertions, pc, loop_fps>>

QueryWith(op, arg, result) ==
    /\ ret' = Call(op, arg, result)
    /\ UNCHANGED <<timeVars, history, trues, falses, debug_assertions, pc, loop_fps>>

Call_f64_to_duration(num, den) ==
    \E result \in f64_to_duration_outcomes(num, den) : QueryWith("f64_to_duration", num, result)

Call_duration_to_f64(d) == QueryWith("duration_to_f64", d, Float(duration_to_f64(d)))

Call_fps_as_duration(fps) == QueryWith("fps_as_duration", fps, Value(fps_as_duration(fps)))

Call_get_delta == Query("get_delta", Value(get_delta))

Call_get_average_delta == Query("get_average_delta", get_average_delta)

Call_get_fps == Query("get_fps", get_fps)

Call_get_time_since_start(now) == Query("get_time_since_start", Value(get_time_since_start(now)))

Call_get_remaining_update_time == Query("get_remaining_update_time", Value(get_remaining_update_time))

Call_get_ticks == Query("get_ticks", Value(get_ticks))

----------------------------------------------------------------------------
(* Spec: any interleaving of the operations, with free tick deltas *)

DoTick ==
    /\ \E d \in Deltas : frame_count < MaxTicks /\ tick(last_instant + d)
    /\ UNCHANGED <<pc, loop_fps>>

DoCheckUpdateTime ==
    /\ \E fps \in Rates : check_update_time(fps)
    /\ UNCHANGED <<pc, loop_fps>>

DoGetTimeSinceStart == \E d \in Deltas : Call_get_time_since_start(last_instant + d)

Next ==
    \/ DoTick
    \/ DoCheckUpdateTime
    \/ Call_get_delta
    \/ Call_get_average_delta
    \/ Call_get_fps
    \/ DoGetTimeSinceStart
    \/ Call_get_remaining_update_time
    \/ Call_get_ticks

Spec == Init /\ [][Next]_vars

----------------------------------------------------------------------------
(* HistSpec: long runs, to fill and wrap the LogBuffer.  The first PatLen
   frame times are free; later frames repeat them with period PatLen. *)

Paced(d) == IF Len(history) < PatLen THEN TRUE ELSE d = history[Len(history) - PatLen + 1]

HistTick ==
    /\ \E d \in HistDeltas : frame_count < HistTicks /\ Paced(d) /\ tick(last_instant + d)
    /\ UNCHANGED <<pc, loop_fps>>

NextHist ==
    \/ HistTick
    \/ Call_get_delta
    \/ Call_get_average_delta
    \/ Call_get_fps
    \/ Call_get_ticks

HistSpec == Init /\ [][NextHist]_vars

----------------------------------------------------------------------------
(* ConvSpec: the conversions under both build configurations, and the
   accumulator at one fixed rate taken from the whole range of rates *)

ConvInit == InitTimer /\ loop_fps = 0 /\ debug_assertions \in BOOLEAN

ConvTick ==
    /\ \E d \in ConvDeltas : frame_count < ConvTicks /\ tick(last_instant + d)
    /\ UNCHANGED <<pc, loop_fps>>

ConvCheck ==
    /\ \E fps \in ConvRates :
           /\ (DOMAIN trues \cup falses) \subseteq {fps}
           /\ Count(fps) < ConvSteps
           /\ check_update_time(fps)
    /\ UNCHANGED <<pc, loop_fps>>

ConvF64ToDuration == \E t \in ConvInputs : Call_f64_to_duration(t[1], t[2])

ConvDurationToF64 == \E d \in ConvDurations : Call_duration_to_f64(d)

ConvFpsAsDuration == \E fps \in ConvRates : Call_fps_as_duration(fps)

NextConv ==
    \/ ConvTick
    \/ ConvCheck
    \/ ConvF64ToDuration
    \/ ConvDurationToF64
    \/ ConvFpsAsDuration
    \/ Call_get_remaining_update_time

ConvSpec == ConvInit /\ [][NextConv]_vars

----------------------------------------------------------------------------
(* LoopSpec: the caller's frame loop; each frame is one tick() followed by
       while check_update_time(ctx, fps) { update_game_physics() }          *)

InitLoop == InitTimer /\ loop_fps \in LoopRates /\ debug_assertions = TRUE

RunTick ==
    /\ pc = "idle"
    /\ frame_count < LoopTicks
    /\ \E d \in LoopDeltas : tick(last_instant + d)
    /\ pc' = "update"
    /\ UNCHANGED loop_fps

UpdateLoop ==
    /\ pc = "update"
    /\ Count(loop_fps) < MaxSteps
    /\ check_update_time(loop_fps)
    /\ pc' = IF ret'.yes THEN "update" ELSE "idle"
    /\ UNCHANGED loop_fps

NextLoop == RunTick \/ UpdateLoop

LoopSpec == InitLoop /\ [][NextLoop]_vars /\ WF_vars(UpdateLoop)

----------------------------------------------------------------------------
(* Properties *)

\* The total target_dt consumed by the true results so far
RECURSIVE ConsumedBy(_)
ConsumedBy(rates) ==
    IF rates = {} THEN 0
    ELSE LET r == CHOOSE x \in rates : TRUE
         IN  trues[r] * fps_as_duration(r) + ConsumedBy(rates \ {r})

Consumed == ConsumedBy(DOMAIN trues)

AllZero == \A i \in 1..Len(history) : history[i] = 0

AllSame == \A i \in 1..Len(history) : history[i] = history[1]

IsCheck == ret.op = "check_update_time"

IsAverage == ret.op = "get_average_delta"

C2_TrueWhenEqualOrGreater ==
    (IsCheck /\ ret.pre >= fps_as_duration(ret.arg)) => ret.yes

\* C3: in every reachable state the residual is >= 0 (the subtraction in
\* check_update_time never underflows), and so is get_remaining_update_time.
C3_ResidualNonNegative ==
    /\ residual_update_dt >= 0
    /\ get_remaining_update_time >= 0

C3_Witness ==
    /\ IsCheck /\ ret.yes
    /\ Count(25) = 1 /\ Count(60) = 3
    /\ residual_update_dt = 2

\* C4: the residual equals the sum of the deltas of all ticks minus target_dt
\* for every call that returned true.  Instance: 40 ms consumed at 60 fps
\* alone gives exactly two true results and 6666668 ns carried over.
C4_NothingLostOrInvented ==
    /\ residual_update_dt = SumSeq(history) - Consumed
    /\ (IsCheck /\ ~ret.yes /\ ret.arg = 60 /\ history = <<Ms(40)>> /\ DOMAIN trues \subseteq {60})
           => (Count(60) = 2 /\ residual_update_dt = 6666668)

C4_Witness ==
    /\ ret.op = "tick"
    /\ history = <<Ms(40), Ms(5)>>
    /\ DOMAIN trues = {60} /\ Count(60) = 2
    /\ residual_update_dt = 6666668 + Ms(5)

\* C5: the caller's update loop, while check_update_time(ctx, fps) {..} with
\* no tick in between, ends: for every fps in 1..1000 a loop that has started
\* eventually gets false.
C5_CatchUpLoopTerminates == (pc = "update") ~> (pc = "idle")

C5_Witness ==
    /\ pc = "idle" /\ IsCheck /\ ~ret.yes
    /\ loop_fps = 1000 /\ Count(1000) = 44
    /\ residual_update_dt = Ms(1)

\* C6 (as claimed): the size field is 0 after new, k after k < capacity
\* pushes and capacity from then on.
C6_SizeCountsPushes ==
    frame_durations.size = Min(frame_count, TIME_LOG_FRAMES)

\* C7: if every tick recorded the same duration d and at least TIME_LOG_FRAMES
\* ticks have occurred, get_average_delta returns exactly d.
C7_SteadyAverage ==
    (IsAverage /\ frame_count >= TIME_LOG_FRAMES /\ AllSame)
        => (~ret.panicked /\ ret.val = history[1])

C7_Witness ==
    /\ IsAverage /\ frame_count >= TIME_LOG_FRAMES /\ AllSame
    /\ history[1] = 1000003 /\ ret.val = 1000003

\* C8 (as claimed): get_average_delta divides the sum of the slots by the
\* number of values pushed so far capped at 200: after k ticks, 1 <= k < 200,
\* the divisor is k.
C8_DivisorIsPushCount ==
    (IsAverage /\ frame_count >= 1)
        => (~ret.panicked /\
            ret.val = SumRange(frame_durations.contents, 0, TIME_LOG_FRAMES - 1)
                          \div Min(frame_count, TIME_LOG_FRAMES))

\* C9: after k ticks, 1 <= k < 200, get_average_delta is at most the true mean
\* of the k recorded durations (strictly less when their sum is positive);
\* from the 200th tick on it is the truncated mean of the last 200 durations.
C9_WarmUpBias ==
    IsAverage =>
        LET k == frame_count
            sum == SumSeq(history)
        IN  /\ ~ret.panicked
            /\ (1 <= k /\ k < TIME_LOG_FRAMES) =>
                   (ret.val * k <= sum /\ (sum > 0 => ret.val * k < sum))
            /\ k >= TIME_LOG_FRAMES =>
                   ret.val = SumRange(history, k - TIME_LOG_FRAMES + 1, k) \div TIME_LOG_FRAMES

C9_Witness ==
    /\ IsAverage /\ frame_count = TIME_LOG_FRAMES + 1
    /\ history[1] # history[frame_count]
    /\ ret.val # SumSeq(history) \div TIME_LOG_FRAMES

\* C10: with no tick yet, and whenever all recorded durations are zero,
\* get_average_delta completes and returns zero (no zero divisor), get_fps
\* returns a non-finite value; with no tick yet get_ticks is 0.
C10_ZeroAverageNoFailure ==
    /\ (IsAverage /\ AllZero) => (~ret.panicked /\ ret.val = 0)
    /\ (ret.op = "get_fps" /\ AllZero) => (~ret.panicked /\ ret.den = 0 /\ ret.val > 0)
    /\ (ret.op = "get_ticks" /\ history = <<>>) => ret.val = 0

C10_Witness ==
    /\ ret.op = "get_fps" /\ history = <<>>
    /\ ~ret.panicked /\ ret.den = 0

\* The last push, if any, that wrote slot j after k pushes: the largest i <= k
\* with i % TIME_LOG_FRAMES = j (0 if there is none)
LastPushTo(j, k) ==
    LET i == (k - ((k - j) % TIME_LOG_FRAMES))
    IN  IF i >= 1 THEN i ELSE 0

Slots == frame_durations.contents

QueryOps == {"get_delta", "get_average_delta", "get_fps", "get_time_since_start",
             "get_remaining_update_time", "get_ticks"}

\* C11: after k calls of tick, get_ticks returns k: tick adds exactly 1 to
\* frame_count and no other operation changes it.
C11_TicksCounted ==
    /\ frame_count = Len(history)
    /\ get_ticks = Len(history)
    /\ ret.op = "get_ticks" => ret.val = Len(history)

C11_Witness ==
    /\ ret.op = "get_ticks" /\ ret.val = 3
    /\ Len(history) = 3 /\ Count(25) >= 1 /\ Count(60) >= 1

\* C12: latest() right after push(x) is x, also across the wrap-around: after
\* a tick get_delta returns the delta that tick measured, and before any tick
\* it returns the zero sentinel.
C12_LatestIsLastPushed ==
    LET last == IF history = <<>> THEN 0 ELSE history[Len(history)]
    IN  /\ get_delta = last
        /\ ret.op = "get_delta" => ret.val = last
        /\ ret.op = "tick" => LogBuffer_latest(frame_durations) = ret.val

C12_Witness ==
    /\ ret.op = "get_delta" /\ frame_count = TIME_LOG_FRAMES + 1
    /\ ret.val = 1000003 /\ history[frame_count - 1] = 7

\* C13 (as claimed): f64_to_duration with a negative input fails in every
\* build configuration and never returns a Duration.
C13_NegativeAlwaysFails ==
    (ret.op = "f64_to_duration" /\ ret.arg < 0) => ret.panicked

\* C14: after k >= 200 pushes the slots hold, as a multiset, the 200 most
\* recent values, and the slot the next push overwrites holds the oldest of
\* them; after k < 200 pushes the slots are the k values plus 200 - k sentinels.
C14_HoldsLastN ==
    LET k == Len(history)
        first == IF k > TIME_LOG_FRAMES THEN k - TIME_LOG_FRAMES + 1 ELSE 1
        sentinels == IF k < TIME_LOG_FRAMES THEN TIME_LOG_FRAMES - k ELSE 0
        InSlots(v) == Cardinality({j \in DOMAIN Slots : Slots[j] = v})
        InRecent(v) == Cardinality({i \in first..k : history[i] = v})
    IN  /\ \A v \in HistDeltas \cup {0} :
               InSlots(v) = InRecent(v) + (IF v = 0 THEN sentinels ELSE 0)
        /\ \A j \in DOMAIN Slots : Slots[j] \in HistDeltas \cup {0}
        /\ k >= TIME_LOG_FRAMES =>
               Slots[(frame_durations.head + 1) % TIME_LOG_FRAMES] = history[first]

C14_Witness ==
    /\ Len(history) = TIME_LOG_FRAMES + 2
    /\ history[1] = 7 /\ history[2] = 0 /\ history[3] = 1000003
    /\ Cardinality({j \in DOMAIN Slots : Slots[j] = 7}) = 67

\* C15: on a fresh TimeContext check_update_time returns false for any rate;
\* once check_update_time(r) has returned false, every further call with the
\* same r returns false and leaves the residual unchanged until the next tick.
C15_FalseUntilNextTick ==
    /\ (IsCheck /\ history = <<>>) => ~ret.yes
    /\ (IsCheck /\ ret.yes) => ret.arg \notin falses
    /\ (IsCheck /\ ~ret.yes) => (ret.arg \in falses /\ residual_update_dt = ret.pre)
    /\ \A r \in falses : residual_update_dt <= fps_as_duration(r)

C15_Witness ==
    /\ IsCheck /\ ~ret.yes /\ ret.arg = 25
    /\ falses = {25, 60} /\ Count(60) = 2
    /\ residual_update_dt = Ms(40) - 2 * 16666666

C17_EveryRatePositive ==
    /\ ret.op = "fps_as_duration" => ret.val > 0
    /\ (IsCheck /\ ret.yes) => residual_update_dt < ret.pre

\* C17 (amended): the same for every target_fps from 1 to 1,000,000,000; above
\* that the computed duration is zero.
C17_RatesUpToNanosPositive ==
    /\ ret.op = "fps_as_duration" => (ret.val > 0 <=> ret.arg <= NANOS_PER_SEC)
    /\ (IsCheck /\ ret.yes /\ ret.arg <= NANOS_PER_SEC) => residual_update_dt < ret.pre
    /\ (IsCheck /\ ret.yes /\ ret.arg > NANOS_PER_SEC) => residual_update_dt = ret.pre

C17_Witness ==
    /\ IsCheck /\ ret.yes /\ ret.arg = NANOS_PER_SEC
    /\ ret.pre = Ms(5) /\ residual_update_dt = Ms(5) - 1

\* C18: check_update_time changes nothing but the residual; the queries change
\* no state at all; init_instant is never changed after construction.
C18_FrameConditions ==
    [][/\ ret'.op = "check_update_time" =>
              <<init_instant, last_instant, frame_durations, frame_count>>'
                  = <<init_instant, last_instant, frame_durations, frame_count>>
       /\ ret'.op \in QueryOps => timeVars' = timeVars
       /\ init_instant' = init_instant]_vars

C18_Witness ==
    /\ IsCheck /\ ret.yes /\ residual_update_dt # ret.pre
    /\ frame_count = 2 /\ frame_durations.head = 2 /\ last_instant = Ms(85)

\* C19: in every reachable state the cursor is in [0, capacity), the storage
\* has exactly capacity slots and size is at most capacity; size never
\* decreases from one state to the next.
C19_BufferStructure ==
    /\ [](/\ frame_durations.head \in 0..(TIME_LOG_FRAMES - 1)
          /\ DOMAIN frame_durations.contents = 0..(TIME_LOG_FRAMES - 1)
          /\ VecLen(frame_durations.contents) = TIME_LOG_FRAMES
          /\ frame_durations.size <= TIME_LOG_FRAMES)
    /\ [][frame_durations'.size >= frame_durations.size]_vars

C19_Witness ==
    /\ ret.op = "tick" /\ frame_count = TIME_LOG_FRAMES + 1
    /\ frame_durations.head = 1 /\ frame_durations.size = TIME_LOG_FRAMES

\* C20: the i-th push writes slot i mod 200: slot 0 keeps the sentinel through
\* the first 199 pushes and is first overwritten by push number 200.
C20_AdvanceBeforeWrite ==
    LET k == Len(history)
    IN  /\ frame_durations.head = k % TIME_LOG_FRAMES
        /\ \A j \in DOMAIN Slots :
               Slots[j] = IF LastPushTo(j, k) = 0 THEN 0 ELSE history[LastPushTo(j, k)]
        /\ k < TIME_LOG_FRAMES => Slots[0] = 0
        /\ k >= TIME_LOG_FRAMES => Slots[0] = history[TIME_LOG_FRAMES]

C20_Witness ==
    /\ ret.op = "tick" /\ frame_count = TIME_LOG_FRAMES
    /\ frame_durations.head = 0 /\ Slots[0] = 1000003
    /\ history[1] = 7 /\ Slots[1] = 7

====
